---- MODULE Spec2Model ----
(***************************************************************************)
(* Credit ledger, summary generation and authentication of the knugget     *)
(* backend.                                                                *)
(*                                                                         *)
(* The relational store is the only shared state: User.credits, User.plan, *)
(* the Summary rows, the User rows and the RefreshToken rows.  Every        *)
(* service call is an asynchronous function whose awaits on the store, on   *)
(* the AI provider or on the identity provider are suspension points; one   *)
(* action of the model is one such database statement (or transaction)     *)
(* together with the synchronous code that follows it up to the next await. *)
(* The ledger (Spec, SpecSeq, SpecGenerate) and authentication (SpecAuth)   *)
(* share no state and are explored separately.                             *)
(***************************************************************************)
EXTENDS Integers, FiniteSets, Sequences, TLC

\* ---------------------------------------------------------------- bounds
NCalls == 2
MaxInitCredits == 2
MaxInitRows == 1

\* the history cap of cleanupOldSummaries: 100 in the source, scaled down so that
\* a user can exceed it within the bounds above
MAX_SUMMARY_HISTORY == 1

\* ------------------------------------------------------ program constants
\* config.credits, with the defaults of the configuration schema
perSummary == 1
freeMonthly == 10
premiumMonthly == 1000

Calls == 1..NCalls
Users == {"u1", "u2"}
Videos == {"v1", "v2"}
Plans == {"FREE", "PREMIUM"}
\* what an AI payload or a saved body carries (keyPoints, fullSummary, tags);
\* 0 is the empty content of a row just created by generate
Payloads == {1, 2}
EmptyContent == 0
\* the AI client returns a validated payload, throws, returns no data, or gets
\* a malformed payload (which it turns into a throw)
AIOutcomes == {"ok", "throw", "nodata", "malformed"}

VARIABLES
    credits,      \* User.credits
    plan,         \* User.plan
    summaries,    \* the Summary table: a set of rows
    nextId,       \* ids are never reused; createdAt grows with the id
    calls,        \* the service calls: position and locals of each
    startCredits, \* history: User.credits in the initial state
    timedOut,     \* per call: where it was when the timer of catchAsync fired
    userRows,     \* the User table as authentication sees it: a set of rows
    refreshTokens,\* the RefreshToken table: a set of rows
    nextUserId,   \* user ids are never reused
    nextTokenId,  \* refresh token ids are never reused
    auth,         \* the authentication calls: position and locals of each
    chunkCall     \* a call of chunkTranscript: its argument and what it returned

\* the state of authentication, which the ledger operations leave alone
authVars == <<userRows, refreshTokens, nextUserId, nextTokenId, auth>>

\* the state of the ledger, which authentication leaves alone
ledgerVars == <<credits, plan, summaries, nextId, calls, startCredits, timedOut>>

vars == <<credits, plan, summaries, nextId, calls, startCredits, timedOut, authVars, chunkCall>>

NoData == [id |-> 0, content |-> EmptyContent, status |-> "NONE", videoId |-> "none", saved |-> FALSE]

\* locals of a call: read is the credits value a call read, readPlan the plan it
\* read, snapshot the content of the row it read; net is what the call has taken
\* from the balance and not given back; code and data are its outcome
IdleCall ==
    [op |-> "none", pc |-> "idle", userId |-> "none", videoId |-> "none",
     summaryId |-> 0, read |-> 0, readPlan |-> "none", snapshot |-> 0, arg |-> 0,
     newPlan |-> "none", counts |-> <<>>, pending |-> {}, ids |-> {}, net |-> 0,
     code |-> 0,
     newBalance |-> 0, data |-> NoData,
     body |-> [content |-> <<>>, status |-> <<>>, userId |-> <<>>, videoId |-> <<>>]]

\* ---------------------------------------------------------------- store
RowsOf(u) == {s \in summaries : s.userId = u}

HasRow(id) == \E s \in summaries : s.id = id

RowById(id) == CHOOSE s \in summaries : s.id = id

\* prisma.summary.findFirst({where: {userId, videoId, status: "COMPLETED"}})
CompletedFor(u, v) ==
    {s \in summaries : s.userId = u /\ s.videoId = v /\ s.status = "COMPLETED"}

\* prisma.summary.update({where: {id}, data}) on a row that exists
UpdateRow(id, status, content) ==
    {IF s.id = id THEN [s EXCEPT !.status = status, !.content = content] ELSE s : s \in summaries}

SetStatus(id, status) ==
    {IF s.id = id THEN [s EXCEPT !.status = status] ELSE s : s \in summaries}

formatSummary(s) ==
    [id |-> s.id, content |-> s.content, status |-> s.status, videoId |-> s.videoId, saved |-> TRUE]

Finish(c, code, data) ==
    [calls EXCEPT ![c].pc = "done", ![c].code = code, ![c].data = data]

\* ------------------------------------------------------------- generate
\* faulty variant: the credit check is missing
GenerateStartNoCheck(c, u, v) ==
    /\ calls[c].pc = "idle"
    /\ calls' = [calls EXCEPT ![c].op = "generate", ![c].userId = u, ![c].videoId = v,
                              ![c].read = credits[u], ![c].pc = "g_find"]
    /\ UNCHANGED <<credits, plan, summaries, nextId, startCredits, timedOut, authVars, chunkCall>>

\* findUnique(user) and the credit check (users are not deleted here, so the
\* user is always found)
GenerateStart(c, u, v) ==
    /\ calls[c].pc = "idle"
    /\ LET started == [calls EXCEPT ![c].op = "generate", ![c].userId = u,
                                    ![c].videoId = v, ![c].read = credits[u]]
       IN  calls' = IF credits[u] < perSummary
                    THEN [started EXCEPT ![c].pc = "done", ![c].code = 402]
                    ELSE [started EXCEPT ![c].pc = "g_find"]
    /\ UNCHANGED <<credits, plan, summaries, nextId, startCredits, timedOut, authVars, chunkCall>>

\* faulty variant: the idempotency check is missing
GenerateFindExistingNever(c) ==
    /\ calls[c].pc = "g_find"
    /\ calls' = [calls EXCEPT ![c].pc = "g_create"]
    /\ UNCHANGED <<credits, plan, summaries, nextId, startCredits, timedOut, authVars, chunkCall>>

\* findFirst(COMPLETED summary of this video): the idempotency short-circuit
GenerateFindExisting(c) ==
    /\ calls[c].pc = "g_find"
    /\ LET found == CompletedFor(calls[c].userId, calls[c].videoId)
       IN  IF found # {}
           THEN \E s \in found : calls' = Finish(c, 200, formatSummary(s))
           ELSE calls' = [calls EXCEPT ![c].pc = "g_create"]
    /\ UNCHANGED <<credits, plan, summaries, nextId, startCredits, timedOut, authVars, chunkCall>>

\* create the PROCESSING row
GenerateCreate(c) ==
    /\ calls[c].pc = "g_create"
    /\ summaries' = summaries \cup
          {[id |-> nextId, userId |-> calls[c].userId, videoId |-> calls[c].videoId,
            status |-> "PROCESSING", content |-> EmptyContent]}
    /\ nextId' = nextId + 1
    /\ calls' = [calls EXCEPT ![c].pc = "g_debit", ![c].summaryId = nextId]
    /\ UNCHANGED <<credits, plan, startCredits, timedOut, authVars, chunkCall>>

\* faulty variant: the AI call is issued before the balance is debited
GenerateDebitDeferred(c) ==
    /\ calls[c].pc = "g_debit"
    /\ calls' = [calls EXCEPT ![c].pc = "g_ai"]
    /\ UNCHANGED <<credits, plan, summaries, nextId, startCredits, timedOut, authVars, chunkCall>>

\* faulty variant: a conditional decrement that silently skips an uncovered debit
GenerateDebitIfCovered(c) ==
    /\ calls[c].pc = "g_debit"
    /\ IF credits[calls[c].userId] >= perSummary
       THEN /\ credits' = [credits EXCEPT ![calls[c].userId] = @ - perSummary]
            /\ calls' = [calls EXCEPT ![c].pc = "g_ai", ![c].net = perSummary]
       ELSE /\ calls' = [calls EXCEPT ![c].pc = "g_ai"]
            /\ UNCHANGED credits
    /\ UNCHANGED <<plan, summaries, nextId, startCredits, timedOut, authVars, chunkCall>>

\* faulty variant: the debit takes twice the cost
GenerateDebitTwice(c) ==
    /\ calls[c].pc = "g_debit"
    /\ credits' = [credits EXCEPT ![calls[c].userId] = @ - 2 * perSummary]
    /\ calls' = [calls EXCEPT ![c].pc = "g_ai", ![c].net = perSummary]
    /\ UNCHANGED <<plan, summaries, nextId, startCredits, timedOut, authVars, chunkCall>>

\* decrement the balance, before the AI call
GenerateDebit(c) ==
    /\ calls[c].pc = "g_debit"
    /\ credits' = [credits EXCEPT ![calls[c].userId] = @ - perSummary]
    /\ calls' = [calls EXCEPT ![c].pc = "g_ai", ![c].net = perSummary]
    /\ UNCHANGED <<plan, summaries, nextId, startCredits, timedOut, authVars, chunkCall>>

\* what a parsed AI response holds in keyPoints, fullSummary and tags: a value
\* of another type (or no value), an empty one, an array with an element that
\* is not a string, or a proper one
KeyPointsShapes == {"notArray", "empty", "mixed", "strings"}
FullSummaryShapes == {"notString", "empty", "text"}
TagsShapes == {"notArray", "empty", "mixed", "strings"}

\* a response of the AI provider: the outcome of the request and of JSON.parse,
\* and for a parsed response its fields and the content it carries
Response(outcome, keyPoints, fullSummary, tags, payload) ==
    [outcome |-> outcome, keyPoints |-> keyPoints, fullSummary |-> fullSummary,
     tags |-> tags, payload |-> payload]

\* the responses explored: the failed requests, the proper responses, and the
\* parsed responses with one field, or every field, out of shape
AIResponses ==
    {Response(o, "notArray", "notString", "notArray", 1) : o \in AIOutcomes \ {"ok"}}
    \cup {Response("ok", "strings", "text", t, p) : t \in {"empty", "strings"}, p \in Payloads}
    \cup {Response("ok", k, "text", "strings", 1) : k \in KeyPointsShapes}
    \cup {Response("ok", "strings", f, "strings", 1) : f \in FullSummaryShapes}
    \cup {Response("ok", "strings", "text", t, 1) : t \in TagsShapes}
    \cup {Response("ok", "notArray", "notString", "notArray", 1)}

\* faulty variant: the lengths of keyPoints and fullSummary are not checked
validateSummaryResponseLax(response) ==
    /\ response.keyPoints # "notArray"
    /\ response.keyPoints # "mixed"
    /\ response.fullSummary # "notString"
    /\ response.tags # "notArray"
    /\ response.tags # "mixed"

\* validateSummaryResponse of the AI client
validateSummaryResponse(response) ==
    /\ response.keyPoints # "notArray"
    /\ response.keyPoints # "empty"
    /\ response.keyPoints # "mixed"
    /\ response.fullSummary # "notString"
    /\ response.fullSummary # "empty"
    /\ response.tags # "notArray"
    /\ response.tags # "mixed"

\* openaiService.generateSummary returns data: it throws for a failed request,
\* an empty response, an unparseable one and one that fails the validation
AIReturnsData(response) ==
    response.outcome = "ok" /\ validateSummaryResponse(response)

\* the AI call returns with one response; with data the row is completed
GenerateAIResponse(c, response) ==
    /\ calls[c].pc = "g_ai"
    /\ IF AIReturnsData(response) /\ HasRow(calls[c].summaryId)
       THEN /\ summaries' = UpdateRow(calls[c].summaryId, "COMPLETED", response.payload)
            /\ calls' = Finish(c, 200,
                           formatSummary([RowById(calls[c].summaryId) EXCEPT
                                             !.status = "COMPLETED",
                                             !.content = response.payload]))
       ELSE /\ summaries' = summaries
            /\ calls' = [calls EXCEPT ![c].pc = "g_comp",
                                      ![c].code = 500]
    /\ UNCHANGED <<credits, plan, nextId, startCredits, timedOut, authVars, chunkCall>>

\* the AI call returns; on success the row is completed
GenerateAIReturn(c) == \E response \in AIResponses : GenerateAIResponse(c, response)

\* faulty variant: the status flip without the refund
GenerateCompensateNoRefund(c) ==
    /\ calls[c].pc = "g_comp"
    /\ IF HasRow(calls[c].summaryId)
       THEN /\ summaries' = SetStatus(calls[c].summaryId, "FAILED")
            /\ calls' = Finish(c, calls[c].code, NoData)
       ELSE /\ calls' = Finish(c, 500, NoData)
            /\ UNCHANGED summaries
    /\ UNCHANGED <<credits, plan, nextId, startCredits, timedOut, authVars, chunkCall>>

\* faulty variant: two independent writes instead of one transaction: the refund is
\* applied although the row can no longer be written
GenerateCompensateSplit(c) ==
    /\ calls[c].pc = "g_comp"
    /\ summaries' = SetStatus(calls[c].summaryId, "FAILED")
    /\ credits' = [credits EXCEPT ![calls[c].userId] = @ + perSummary]
    /\ calls' = [Finish(c, calls[c].code, NoData) EXCEPT ![c].net = 0]
    /\ UNCHANGED <<plan, nextId, startCredits, timedOut, authVars, chunkCall>>

\* the compensating transaction: status FAILED and the refund, or neither
GenerateCompensate(c) ==
    /\ calls[c].pc = "g_comp"
    /\ IF HasRow(calls[c].summaryId)
       THEN /\ summaries' = SetStatus(calls[c].summaryId, "FAILED")
            /\ credits' = [credits EXCEPT ![calls[c].userId] = @ + perSummary]
            /\ calls' = [Finish(c, calls[c].code, NoData) EXCEPT ![c].net = 0]
       ELSE /\ calls' = Finish(c, 500, NoData)
            /\ UNCHANGED <<summaries, credits>>
    /\ UNCHANGED <<plan, nextId, startCredits, timedOut, authVars, chunkCall>>


\* ---------------------------------------------------------- saveSummary
\* faulty variant: a saved summary is charged like a generated one
SaveCreateCharged(c, u, v, content, hasMetadata) ==
    /\ calls[c].pc = "idle"
    /\ LET started == [calls EXCEPT ![c].op = "save", ![c].userId = u, ![c].videoId = v,
                                    ![c].arg = content]
       IN  IF ~hasMetadata
           THEN /\ calls' = [started EXCEPT ![c].pc = "done", ![c].code = 400]
                /\ UNCHANGED <<summaries, nextId>>
           ELSE LET row == [id |-> nextId, userId |-> u, videoId |-> v,
                            status |-> "COMPLETED", content |-> content]
                IN  /\ summaries' = summaries \cup {row}
                    /\ nextId' = nextId + 1
                    /\ calls' = [started EXCEPT ![c].pc = "done", ![c].code = 200,
                                                ![c].summaryId = nextId,
                                                ![c].data = formatSummary(row)]
    /\ credits' = [credits EXCEPT ![u] = IF hasMetadata THEN @ - perSummary ELSE @]
    /\ UNCHANGED <<plan, startCredits, timedOut, authVars, chunkCall>>

\* without an id: the metadata check and the create, directly COMPLETED
SaveCreate(c, u, v, content, hasMetadata) ==
    /\ calls[c].pc = "idle"
    /\ LET started == [calls EXCEPT ![c].op = "save", ![c].userId = u, ![c].videoId = v,
                                    ![c].arg = content]
       IN  IF ~hasMetadata
           THEN /\ calls' = [started EXCEPT ![c].pc = "done", ![c].code = 400]
                /\ UNCHANGED <<summaries, nextId>>
           ELSE LET row == [id |-> nextId, userId |-> u, videoId |-> v,
                            status |-> "COMPLETED", content |-> content]
                IN  /\ summaries' = summaries \cup {row}
                    /\ nextId' = nextId + 1
                    /\ calls' = [started EXCEPT ![c].pc = "done", ![c].code = 200,
                                                ![c].summaryId = nextId,
                                                ![c].data = formatSummary(row)]
    /\ UNCHANGED <<credits, plan, startCredits, timedOut, authVars, chunkCall>>

\* with an id: findFirst({id, userId})
SaveFind(c, u, id, content) ==
    /\ calls[c].pc = "idle"
    /\ LET started == [calls EXCEPT ![c].op = "saveId", ![c].userId = u,
                                    ![c].summaryId = id, ![c].arg = content]
       IN  IF \E s \in RowsOf(u) : s.id = id
           THEN calls' = [started EXCEPT ![c].pc = "s_update",
                                         ![c].snapshot = RowById(id).content]
           ELSE calls' = [started EXCEPT ![c].pc = "done", ![c].code = 404]
    /\ UNCHANGED <<credits, plan, summaries, nextId, startCredits, timedOut, authVars, chunkCall>>

\* with an id: update the content fields (a field the body lacks is written
\* back from the row read before)
SaveUpdate(c) ==
    /\ calls[c].pc = "s_update"
    /\ IF HasRow(calls[c].summaryId)
       THEN LET content == IF calls[c].arg = EmptyContent THEN calls[c].snapshot
                           ELSE calls[c].arg
                row == [RowById(calls[c].summaryId) EXCEPT !.content = content]
            IN  /\ summaries' = (summaries \ {RowById(calls[c].summaryId)}) \cup {row}
                /\ calls' = Finish(c, 200, formatSummary(row))
       ELSE /\ calls' = Finish(c, 500, NoData)
            /\ UNCHANGED summaries
    /\ UNCHANGED <<credits, plan, nextId, startCredits, timedOut, authVars, chunkCall>>

\* -------------------------------------------------------- deleteSummary
DeleteFind(c, u, id) ==
    /\ calls[c].pc = "idle"
    /\ LET started == [calls EXCEPT ![c].op = "delete", ![c].userId = u,
                                    ![c].summaryId = id]
       IN  IF \E s \in RowsOf(u) : s.id = id
           THEN calls' = [started EXCEPT ![c].pc = "d_delete"]
           ELSE calls' = [started EXCEPT ![c].pc = "done", ![c].code = 404]
    /\ UNCHANGED <<credits, plan, summaries, nextId, startCredits, timedOut, authVars, chunkCall>>

DeleteRow(c) ==
    /\ calls[c].pc = "d_delete"
    /\ IF HasRow(calls[c].summaryId)
       THEN /\ summaries' = summaries \ {RowById(calls[c].summaryId)}
            /\ calls' = Finish(c, 200, NoData)
       ELSE /\ calls' = Finish(c, 500, NoData)
            /\ UNCHANGED summaries
    /\ UNCHANGED <<credits, plan, nextId, startCredits, timedOut, authVars, chunkCall>>

\* --------------------------------------------- getSummaryById, updateSummary
\* a field of a request body is a sequence: empty when the body does not
\* carry the field, else its value
NoField == <<>>
Statuses == {"PENDING", "PROCESSING", "COMPLETED", "FAILED"}

\* request bodies of the update endpoint as they reach the service: the
\* validation leaves req.body as the client sent it, so beside the content
\* fields a body can carry any column of the row
UpdateBodies ==
    [content : {NoField, <<2>>}, status : {NoField, <<"PENDING">>},
     userId : {NoField, <<"u2">>}, videoId : {NoField, <<"v2">>}]

NoBody == [content |-> NoField, status |-> NoField, userId |-> NoField, videoId |-> NoField]

\* prisma update with data: updates, on one row
ApplyUpdates(row, updates) ==
    [id |-> row.id,
     userId |-> IF updates.userId # NoField THEN updates.userId[1] ELSE row.userId,
     videoId |-> IF updates.videoId # NoField THEN updates.videoId[1] ELSE row.videoId,
     status |-> IF updates.status # NoField THEN updates.status[1] ELSE row.status,
     content |-> IF updates.content # NoField THEN updates.content[1] ELSE row.content]

\* getSummaryById: findFirst({id, userId})
GetSummaryById(c, u, id) ==
    /\ calls[c].pc = "idle"
    /\ LET started == [calls EXCEPT ![c].op = "get", ![c].userId = u,
                                    ![c].summaryId = id]
       IN  IF \E s \in RowsOf(u) : s.id = id
           THEN calls' = [started EXCEPT ![c].pc = "done", ![c].code = 200,
                                         ![c].data = formatSummary(RowById(id))]
           ELSE calls' = [started EXCEPT ![c].pc = "done", ![c].code = 404]
    /\ UNCHANGED <<credits, plan, summaries, nextId, startCredits, timedOut, authVars, chunkCall>>

\* updateSummary: findFirst({id, userId})
UpdateSummaryFind(c, u, id, updates) ==
    /\ calls[c].pc = "idle"
    /\ LET started == [calls EXCEPT ![c].op = "update", ![c].userId = u,
                                    ![c].summaryId = id, ![c].body = updates]
       IN  IF \E s \in RowsOf(u) : s.id = id
           THEN calls' = [started EXCEPT ![c].pc = "u_update"]
           ELSE calls' = [started EXCEPT ![c].pc = "done", ![c].code = 404]
    /\ UNCHANGED <<credits, plan, summaries, nextId, startCredits, timedOut, authVars, chunkCall>>

\* updateSummary: update({where: {id}, data: updates})
UpdateSummaryWrite(c) ==
    /\ calls[c].pc = "u_update"
    /\ IF HasRow(calls[c].summaryId)
       THEN LET row == ApplyUpdates(RowById(calls[c].summaryId), calls[c].body)
            IN  /\ summaries' = (summaries \ {RowById(calls[c].summaryId)}) \cup {row}
                /\ calls' = Finish(c, 200, formatSummary(row))
       ELSE /\ calls' = Finish(c, 500, NoData)
            /\ UNCHANGED summaries
    /\ UNCHANGED <<credits, plan, nextId, startCredits, timedOut, authVars, chunkCall>>

\* -------------------------------------------------- cleanupOldSummaries
\* faulty variant: the k rows of u with the largest createdAt
Newest(u, k) ==
    {s.id : s \in {r \in RowsOf(u) :
                     Cardinality({q \in RowsOf(u) : q.id > r.id}) < k}}

\* the k rows of u with the smallest createdAt
Oldest(u, k) ==
    {s.id : s \in {r \in RowsOf(u) :
                     Cardinality({q \in RowsOf(u) : q.id < r.id}) < k}}

\* findMany(users with summaries, _count): only users over the cap are visited
CleanupList(c) ==
    /\ calls[c].pc = "idle"
    /\ LET count == [u \in Users |-> Cardinality(RowsOf(u))]
           over == {u \in Users : count[u] > MAX_SUMMARY_HISTORY}
           started == [calls EXCEPT ![c].op = "cleanup", ![c].counts = count,
                                    ![c].pending = over]
       IN  calls' = IF over = {}
                    THEN [started EXCEPT ![c].pc = "done", ![c].code = 200]
                    ELSE [started EXCEPT ![c].pc = "c_find"]
    /\ UNCHANGED <<credits, plan, summaries, nextId, startCredits, timedOut, authVars, chunkCall>>

\* findMany(oldest count - cap rows of the next user over the cap)
CleanupFind(c) ==
    /\ calls[c].pc = "c_find"
    /\ \E u \in calls[c].pending :
          LET found == Oldest(u, calls[c].counts[u] - MAX_SUMMARY_HISTORY)
              rest == calls[c].pending \ {u}
          IN  calls' = IF found # {}
                       THEN [calls EXCEPT ![c].pc = "c_delete", ![c].ids = found,
                                          ![c].pending = rest]
                       ELSE IF rest # {}
                       THEN [calls EXCEPT ![c].pending = rest]
                       ELSE [calls EXCEPT ![c].pc = "done", ![c].code = 200,
                                          ![c].pending = rest]
    /\ UNCHANGED <<credits, plan, summaries, nextId, startCredits, timedOut, authVars, chunkCall>>

\* deleteMany({id in ids})
CleanupDelete(c) ==
    /\ calls[c].pc = "c_delete"
    /\ summaries' = {s \in summaries : s.id \notin calls[c].ids}
    /\ calls' = IF calls[c].pending # {}
                THEN [calls EXCEPT ![c].pc = "c_find"]
                ELSE [calls EXCEPT ![c].pc = "done", ![c].code = 200]
    /\ UNCHANGED <<credits, plan, nextId, startCredits, timedOut, authVars, chunkCall>>

\* ---------------------------------------------------------- UserService
\* addCredits: the amount check and the increment
AddCredits(c, u, amount) ==
    /\ calls[c].pc = "idle"
    /\ LET started == [calls EXCEPT ![c].op = "addCredits", ![c].userId = u,
                                    ![c].arg = amount]
       IN  IF amount <= 0
           THEN /\ calls' = [started EXCEPT ![c].pc = "done", ![c].code = 400]
                /\ UNCHANGED credits
           ELSE /\ credits' = [credits EXCEPT ![u] = @ + amount]
                /\ calls' = [started EXCEPT ![c].pc = "done", ![c].code = 200,
                                            ![c].newBalance = credits[u] + amount]
    /\ UNCHANGED <<plan, summaries, nextId, startCredits, timedOut, authVars, chunkCall>>

\* faulty variant: the decrement is issued whatever the balance read
DeductReadNoCheck(c, u, amount) ==
    /\ calls[c].pc = "idle"
    /\ LET started == [calls EXCEPT ![c].op = "deductCredits", ![c].userId = u,
                                    ![c].arg = amount]
       IN  calls' = IF amount <= 0
                    THEN [started EXCEPT ![c].pc = "done", ![c].code = 400]
                    ELSE [started EXCEPT ![c].pc = "k_update", ![c].read = credits[u]]
    /\ UNCHANGED <<credits, plan, summaries, nextId, startCredits, timedOut, authVars, chunkCall>>

\* deductCredits: the amount check, findUnique(user) and the balance check
DeductRead(c, u, amount) ==
    /\ calls[c].pc = "idle"
    /\ LET started == [calls EXCEPT ![c].op = "deductCredits", ![c].userId = u,
                                    ![c].arg = amount]
       IN  calls' = IF amount <= 0
                    THEN [started EXCEPT ![c].pc = "done", ![c].code = 400]
                    ELSE IF credits[u] < amount
                    THEN [started EXCEPT ![c].pc = "done", ![c].code = 402,
                                         ![c].read = credits[u]]
                    ELSE [started EXCEPT ![c].pc = "k_update", ![c].read = credits[u]]
    /\ UNCHANGED <<credits, plan, summaries, nextId, startCredits, timedOut, authVars, chunkCall>>

\* deductCredits: the decrement
DeductUpdate(c) ==
    /\ calls[c].pc = "k_update"
    /\ credits' = [credits EXCEPT ![calls[c].userId] = @ - calls[c].arg]
    /\ calls' = [Finish(c, 200, NoData) EXCEPT
                    ![c].newBalance = credits[calls[c].userId] - calls[c].arg]
    /\ UNCHANGED <<plan, summaries, nextId, startCredits, timedOut, authVars, chunkCall>>

\* upgradePlan: findUnique(user) and the same-plan check
UpgradeRead(c, u, newPlan) ==
    /\ calls[c].pc = "idle"
    /\ LET started == [calls EXCEPT ![c].op = "upgradePlan", ![c].userId = u,
                                    ![c].newPlan = newPlan, ![c].readPlan = plan[u]]
       IN  calls' = IF plan[u] = newPlan
                    THEN [started EXCEPT ![c].pc = "done", ![c].code = 400]
                    ELSE [started EXCEPT ![c].pc = "p_update"]
    /\ UNCHANGED <<credits, plan, summaries, nextId, startCredits, timedOut, authVars, chunkCall>>

\* the top-up of a plan change, from the plan read before
creditsToAdd(oldPlan, newPlan) ==
    IF newPlan = "PREMIUM" /\ oldPlan = "FREE"
    THEN premiumMonthly - freeMonthly
    ELSE 0

\* upgradePlan: the update of plan and credits
UpgradeUpdate(c) ==
    /\ calls[c].pc = "p_update"
    /\ LET u == calls[c].userId
           add == creditsToAdd(calls[c].readPlan, calls[c].newPlan)
       IN  /\ plan' = [plan EXCEPT ![u] = calls[c].newPlan]
           /\ credits' = [credits EXCEPT ![u] = @ + add]
           /\ calls' = [Finish(c, 200, NoData) EXCEPT ![c].newBalance = credits[u] + add]
    /\ UNCHANGED <<summaries, nextId, startCredits, timedOut, authVars, chunkCall>>

\* resetMonthlyCredits: two updateMany statements issued together (Promise.all);
\* the store applies them in either order
ResetFree(c) ==
    /\ calls[c].pc \in {"idle", "r_premium"}
    /\ credits' = [u \in Users |-> IF plan[u] = "FREE" THEN freeMonthly
                                   ELSE credits[u]]
    /\ calls' = IF calls[c].pc = "idle"
                THEN [calls EXCEPT ![c].op = "resetMonthlyCredits", ![c].pc = "r_free"]
                ELSE [calls EXCEPT ![c].pc = "done", ![c].code = 200]
    /\ UNCHANGED <<plan, summaries, nextId, startCredits, timedOut, authVars, chunkCall>>

ResetPremium(c) ==
    /\ calls[c].pc \in {"idle", "r_free"}
    /\ credits' = [u \in Users |-> IF plan[u] = "PREMIUM" THEN premiumMonthly
                                   ELSE credits[u]]
    /\ calls' = IF calls[c].pc = "idle"
                THEN [calls EXCEPT ![c].op = "resetMonthlyCredits", ![c].pc = "r_premium"]
                ELSE [calls EXCEPT ![c].pc = "done", ![c].code = 200]
    /\ UNCHANGED <<plan, summaries, nextId, startCredits, timedOut, authVars, chunkCall>>

\* ------------------------------------------------------------ AuthService
NAuthCalls == 2
MaxInitTokens == 1

AuthCalls == 1..NAuthCalls
\* e-mail addresses as a client types them, and String.toLowerCase on them
Emails == {"a@x", "A@x", "b@x"}

toLowerCase(e) == IF e = "A@x" THEN "a@x" ELSE e

Passwords == {"right", "wrong"}
\* subject ids of the federated identity provider; a row that is not linked
\* has supabaseId null
Subjects == {"s1", "s2"}
NoSubject == "null"
NoEmail == "null"
\* a refresh token string that jwt.verify rejects
BadToken == 0
\* the id of a user whose row is gone: tokens issued to it still verify
GoneUserId == 9

TokenIds == 1..(MaxInitTokens + NAuthCalls)
RefreshInputs == {BadToken} \cup TokenIds

IdleAuth ==
    [op |-> "none", pc |-> "idle", email |-> "none", password |-> "none",
     bearer |-> "none", token |-> 0, userId |-> 0, subject |-> NoSubject,
     found |-> FALSE, isValidPassword |-> FALSE, code |-> 0, issued |-> 0,
     spent |-> FALSE]

\* history: a refreshToken call with token t has succeeded and returned
Redeemed(t) ==
    \E d \in AuthCalls : /\ auth[d].op = "refresh" /\ auth[d].pc = "done"
                         /\ auth[d].code = 200 /\ auth[d].token = t

UserByEmail(e) == {r \in userRows : r.email = e}

UserBySupabaseId(s) == {r \in userRows : r.supabaseId = s}

UserById(id) == {r \in userRows : r.id = id}

TokenRow(id) == CHOOSE t \in refreshTokens : t.id = id

HasToken(id) == \E t \in refreshTokens : t.id = id

NewToken(id, userId) == [id |-> id, userId |-> userId, revoked |-> FALSE, expired |-> FALSE]

AuthFinish(c, code, issued) ==
    auth' = [auth EXCEPT ![c].pc = "done", ![c].code = code, ![c].issued = issued]

\* login: the lookup by the lower-cased e-mail
LoginFind(c, email, password) ==
    /\ auth[c].pc = "idle"
    /\ LET rows == UserByEmail(toLowerCase(email))
       IN  IF rows = {}
           THEN auth' = [auth EXCEPT ![c].op = "login", ![c].pc = "done",
                                     ![c].email = email, ![c].password = password,
                                     ![c].code = 401]
           ELSE LET user == CHOOSE r \in rows : TRUE
                IN  auth' = [auth EXCEPT ![c].op = "login",
                                 ![c].pc = IF user.supabaseId # NoSubject
                                           THEN "l_signin" ELSE "l_update",
                                 ![c].email = email, ![c].password = password,
                                 ![c].userId = user.id, ![c].found = TRUE,
                                 ![c].isValidPassword = (user.supabaseId = NoSubject)]
    /\ UNCHANGED <<userRows, refreshTokens, nextUserId, nextTokenId, ledgerVars, chunkCall>>

\* faulty variant: the password check of the identity provider is final
LoginSignInEnforced(c, thrown) ==
    /\ auth[c].op = "login" /\ auth[c].pc = "l_signin"
    /\ IF ~thrown /\ auth[c].password = "right"
       THEN auth' = [auth EXCEPT ![c].pc = "l_update", ![c].isValidPassword = TRUE]
       ELSE auth' = [auth EXCEPT ![c].pc = "done", ![c].isValidPassword = FALSE,
                                 ![c].code = 401]
    /\ UNCHANGED <<userRows, refreshTokens, nextUserId, nextTokenId, ledgerVars, chunkCall>>

\* login: signInWithPassword of the identity provider, for a linked user; it
\* accepts the right password, reports an error for a wrong one, or throws
LoginSignIn(c, thrown) ==
    /\ auth[c].op = "login" /\ auth[c].pc = "l_signin"
    /\ LET accepted == ~thrown /\ auth[c].password = "right"
           isValidPassword == IF ~accepted THEN TRUE ELSE accepted
       IN  IF isValidPassword
           THEN auth' = [auth EXCEPT ![c].pc = "l_update",
                                     ![c].isValidPassword = isValidPassword]
           ELSE auth' = [auth EXCEPT ![c].pc = "done", ![c].isValidPassword = FALSE,
                                     ![c].code = 401]
    /\ UNCHANGED <<userRows, refreshTokens, nextUserId, nextTokenId, ledgerVars, chunkCall>>

\* login: user.update of lastLoginAt, which throws when the row is gone
LoginUpdate(c) ==
    /\ auth[c].op = "login" /\ auth[c].pc = "l_update"
    /\ IF UserById(auth[c].userId) # {}
       THEN auth' = [auth EXCEPT ![c].pc = "l_store"]
       ELSE AuthFinish(c, 500, 0)
    /\ UNCHANGED <<userRows, refreshTokens, nextUserId, nextTokenId, ledgerVars, chunkCall>>

\* login: refreshToken.create and the response
LoginStore(c) ==
    /\ auth[c].op = "login" /\ auth[c].pc = "l_store"
    /\ refreshTokens' = refreshTokens \cup {NewToken(nextTokenId, auth[c].userId)}
    /\ nextTokenId' = nextTokenId + 1
    /\ AuthFinish(c, 200, nextTokenId)
    /\ UNCHANGED <<userRows, nextUserId, ledgerVars, chunkCall>>

\* faulty variant: the rotation accepts a token that is already revoked
RefreshFindRevoked(c, t) ==
    /\ auth[c].pc = "idle"
    /\ IF t # BadToken /\ HasToken(t) /\ ~TokenRow(t).expired
       THEN auth' = [auth EXCEPT ![c].op = "refresh", ![c].pc = "t_rotate",
                                 ![c].token = t, ![c].spent = Redeemed(t), ![c].userId = TokenRow(t).userId,
                                 ![c].found = TRUE]
       ELSE auth' = [auth EXCEPT ![c].op = "refresh", ![c].pc = "done",
                                 ![c].token = t, ![c].spent = Redeemed(t),
                                 ![c].code = 401]
    /\ UNCHANGED <<userRows, refreshTokens, nextUserId, nextTokenId, ledgerVars, chunkCall>>

\* refreshToken: jwt.verify and the lookup of the stored, unrevoked token
RefreshFind(c, t) ==
    /\ auth[c].pc = "idle"
    /\ IF t # BadToken /\ HasToken(t) /\ ~TokenRow(t).revoked /\ ~TokenRow(t).expired
       THEN auth' = [auth EXCEPT ![c].op = "refresh", ![c].pc = "t_rotate",
                                 ![c].token = t, ![c].spent = Redeemed(t), ![c].userId = TokenRow(t).userId,
                                 ![c].found = TRUE]
       ELSE auth' = [auth EXCEPT ![c].op = "refresh", ![c].pc = "done",
                                 ![c].token = t, ![c].spent = Redeemed(t),
                                 ![c].code = 401]
    /\ UNCHANGED <<userRows, refreshTokens, nextUserId, nextTokenId, ledgerVars, chunkCall>>

\* refreshToken: the transaction that revokes the old token (by id alone) and
\* creates the new one; the update throws when the row is gone
RefreshRotate(c) ==
    /\ auth[c].op = "refresh" /\ auth[c].pc = "t_rotate"
    /\ IF HasToken(auth[c].token)
       THEN /\ refreshTokens' =
                  {IF t.id = auth[c].token THEN [t EXCEPT !.revoked = TRUE] ELSE t :
                      t \in refreshTokens}
                  \cup {NewToken(nextTokenId, auth[c].userId)}
            /\ nextTokenId' = nextTokenId + 1
            /\ AuthFinish(c, 200, nextTokenId)
       ELSE /\ AuthFinish(c, 401, 0)
            /\ UNCHANGED <<refreshTokens, nextTokenId>>
    /\ UNCHANGED <<userRows, nextUserId, ledgerVars, chunkCall>>

\* logout: updateMany that revokes the token
Logout(t) ==
    /\ HasToken(t) /\ ~TokenRow(t).revoked
    /\ refreshTokens' =
          {IF r.id = t THEN [r EXCEPT !.revoked = TRUE] ELSE r : r \in refreshTokens}
    /\ UNCHANGED <<userRows, nextUserId, nextTokenId, auth, ledgerVars, chunkCall>>

\* cleanupExpiredTokens: deleteMany of the expired and the revoked tokens
CleanupExpiredTokens ==
    /\ \E t \in refreshTokens : t.expired \/ t.revoked
    /\ refreshTokens' = {t \in refreshTokens : ~t.expired /\ ~t.revoked}
    /\ UNCHANGED <<userRows, nextUserId, nextTokenId, auth, ledgerVars, chunkCall>>

\* ---------------------------------------------------------------- register
\* the column defaults of model User
defaultPlan == "FREE"
defaultCredits == 3

\* the subject id the identity provider gives to the user it creates for call c
NewSubject(c) == IF c = 1 THEN "s3" ELSE "s4"

\* register: the lookup by the lower-cased e-mail
RegisterFind(c, email) ==
    /\ auth[c].pc = "idle"
    /\ IF UserByEmail(toLowerCase(email)) # {}
       THEN auth' = [auth EXCEPT ![c].op = "register", ![c].pc = "done",
                                 ![c].email = email, ![c].code = 409]
       ELSE auth' = [auth EXCEPT ![c].op = "register", ![c].pc = "r_supabase",
                                 ![c].email = email]
    /\ UNCHANGED <<userRows, refreshTokens, nextUserId, nextTokenId, ledgerVars, chunkCall>>

\* register: supabase.auth.admin.createUser; an error or a throw leaves the
\* user without a federated subject
RegisterSupabase(c, created) ==
    /\ auth[c].op = "register" /\ auth[c].pc = "r_supabase"
    /\ auth' = [auth EXCEPT ![c].pc = "r_create",
                            ![c].subject = IF created THEN NewSubject(c) ELSE NoSubject]
    /\ UNCHANGED <<userRows, refreshTokens, nextUserId, nextTokenId, ledgerVars, chunkCall>>

\* register: user.create with plan FREE and the free monthly allotment; the
\* e-mail is unique, and a violation ends the call with 500
RegisterCreate(c) ==
    /\ auth[c].op = "register" /\ auth[c].pc = "r_create"
    /\ LET email == toLowerCase(auth[c].email)
       IN  IF UserByEmail(email) = {}
           THEN /\ userRows' = userRows \cup
                      {[id |-> nextUserId, email |-> email,
                        supabaseId |-> auth[c].subject,
                        plan |-> "FREE", credits |-> freeMonthly]}
                /\ nextUserId' = nextUserId + 1
                /\ auth' = [auth EXCEPT ![c].pc = "r_store", ![c].found = TRUE,
                                        ![c].userId = nextUserId]
           ELSE /\ AuthFinish(c, 500, 0)
                /\ UNCHANGED <<userRows, nextUserId>>
    /\ UNCHANGED <<refreshTokens, nextTokenId, ledgerVars, chunkCall>>

\* register: refreshToken.create and the response
RegisterStore(c) ==
    /\ auth[c].op = "register" /\ auth[c].pc = "r_store"
    /\ refreshTokens' = refreshTokens \cup {NewToken(nextTokenId, auth[c].userId)}
    /\ nextTokenId' = nextTokenId + 1
    /\ AuthFinish(c, 200, nextTokenId)
    /\ UNCHANGED <<userRows, nextUserId, ledgerVars, chunkCall>>

\* ------------------------------------------------------------ authenticate
\* bearer tokens of a request: no Authorization header, a string no issuer
\* accepts, a token of this server for user 1 or for a user whose row is gone,
\* and tokens of the identity provider for its subjects
NoBearer == "none"
Bearers == {NoBearer, "invalid", "jwt1", "jwtGone", "fed1", "fed2"}

\* jwt.verify with the server's secret: the embedded user id, 0 when it throws
LocalUserId(b) ==
    CASE b = "jwt1" -> 1
      [] b = "jwtGone" -> GoneUserId
      [] OTHER -> 0

\* supabase.auth.getUser: the subject of the token, null for an error
FederatedSubject(b) ==
    CASE b = "fed1" -> "s1"
      [] b = "fed2" -> "s2"
      [] OTHER -> NoSubject

\* the e-mail of the federated profile; subject s2 carries none
FederatedEmail(s) == IF s = "s1" THEN "a@x" ELSE NoEmail

\* faulty variant: a verified token passes although its user row is missing
AuthenticateStartDangling(c, b) ==
    /\ auth[c].pc = "idle"
    /\ IF b = NoBearer
       THEN auth' = [auth EXCEPT ![c].op = "authenticate", ![c].pc = "done",
                                 ![c].bearer = b, ![c].code = 401]
       ELSE IF LocalUserId(b) # 0
            THEN auth' = [auth EXCEPT ![c].op = "authenticate", ![c].pc = "done",
                                      ![c].bearer = b, ![c].userId = LocalUserId(b),
                                      ![c].found = UserById(LocalUserId(b)) # {},
                                      ![c].code = 200]
            ELSE auth' = [auth EXCEPT ![c].op = "authenticate", ![c].pc = "a_getUser",
                                      ![c].bearer = b]
    /\ UNCHANGED <<userRows, refreshTokens, nextUserId, nextTokenId, ledgerVars, chunkCall>>

\* authenticate: the header, jwt.verify and the lookup by the embedded user id
AuthenticateStart(c, b) ==
    /\ auth[c].pc = "idle"
    /\ IF b = NoBearer
       THEN auth' = [auth EXCEPT ![c].op = "authenticate", ![c].pc = "done",
                                 ![c].bearer = b, ![c].code = 401]
       ELSE IF LocalUserId(b) # 0 /\ UserById(LocalUserId(b)) # {}
            THEN auth' = [auth EXCEPT ![c].op = "authenticate", ![c].pc = "done",
                                      ![c].bearer = b, ![c].userId = LocalUserId(b),
                                      ![c].found = TRUE, ![c].code = 200]
            ELSE auth' = [auth EXCEPT ![c].op = "authenticate", ![c].pc = "a_getUser",
                                      ![c].bearer = b]
    /\ UNCHANGED <<userRows, refreshTokens, nextUserId, nextTokenId, ledgerVars, chunkCall>>

\* authenticate: the federated check, which can also fail on its own
AuthenticateGetUser(c, failed) ==
    /\ auth[c].op = "authenticate" /\ auth[c].pc = "a_getUser"
    /\ IF failed \/ FederatedSubject(auth[c].bearer) = NoSubject
       THEN AuthFinish(c, 401, 0)
       ELSE auth' = [auth EXCEPT ![c].pc = "a_find",
                                 ![c].subject = FederatedSubject(auth[c].bearer)]
    /\ UNCHANGED <<userRows, refreshTokens, nextUserId, nextTokenId, ledgerVars, chunkCall>>

\* authenticate: the lookup of the local user linked to the subject
AuthenticateFind(c) ==
    /\ auth[c].op = "authenticate" /\ auth[c].pc = "a_find"
    /\ LET rows == UserBySupabaseId(auth[c].subject)
       IN  IF rows # {}
           THEN auth' = [auth EXCEPT ![c].pc = "done", ![c].code = 200,
                                     ![c].found = TRUE,
                                     ![c].userId = (CHOOSE r \in rows : TRUE).id]
           ELSE IF FederatedEmail(auth[c].subject) # NoEmail
                THEN auth' = [auth EXCEPT ![c].pc = "a_create"]
                ELSE AuthFinish(c, 401, 0)
    /\ UNCHANGED <<userRows, refreshTokens, nextUserId, nextTokenId, ledgerVars, chunkCall>>

\* authenticate: user.create of the first federated use; email and supabaseId
\* are unique, and a violation is answered with 401
AuthenticateCreate(c) ==
    /\ auth[c].op = "authenticate" /\ auth[c].pc = "a_create"
    /\ LET email == FederatedEmail(auth[c].subject)
       IN  IF UserByEmail(email) = {} /\ UserBySupabaseId(auth[c].subject) = {}
           THEN /\ userRows' = userRows \cup
                      {[id |-> nextUserId, email |-> email,
                        supabaseId |-> auth[c].subject,
                        plan |-> defaultPlan, credits |-> defaultCredits]}
                /\ nextUserId' = nextUserId + 1
                /\ auth' = [auth EXCEPT ![c].pc = "done", ![c].code = 200,
                                        ![c].found = TRUE, ![c].userId = nextUserId]
           ELSE /\ AuthFinish(c, 401, 0)
                /\ UNCHANGED <<userRows, nextUserId>>
    /\ UNCHANGED <<refreshTokens, nextTokenId, ledgerVars, chunkCall>>

\* ---------------------------------------------------------- OpenAIService
\* the length threshold of a transcript, and the transcripts explored: up to
\* MaxSegments segments, each with a text of 0..MaxSegmentLength characters;
\* a segment is its timestamp and the length of its text
MAX_TRANSCRIPT_LENGTH == 7
MaxSegments == 4

maxChunkLength == MAX_TRANSCRIPT_LENGTH \div 3

MaxSegmentLength == maxChunkLength + 1

Transcripts ==
    UNION {{[i \in 1..n |-> [timestamp |-> i, length |-> f[i]]] :
              f \in [1..n -> 0..MaxSegmentLength]} : n \in 0..MaxSegments}

NoChunkCall == [pc |-> "none", transcript |-> <<>>, chunks |-> <<>>]

\* faulty variant: the chunk being filled when the loop ends is not returned
FlushNever(chunks, currentChunk) == chunks

\* chunkTranscript, after the loop: the chunk being filled is pushed if it
\* holds a segment
Flush(chunks, currentChunk) ==
    IF Len(currentChunk) > 0 THEN Append(chunks, currentChunk) ELSE chunks

RECURSIVE ChunkLoop(_, _, _, _, _)
\* chunkTranscript, the loop from segment i on
ChunkLoop(transcript, i, chunks, currentChunk, currentLength) ==
    IF i > Len(transcript)
    THEN Flush(chunks, currentChunk)
    ELSE LET segment == transcript[i]
             segmentLength == segment.length
         IN  IF currentLength + segmentLength > maxChunkLength /\ Len(currentChunk) > 0
             THEN ChunkLoop(transcript, i + 1, Append(chunks, currentChunk),
                            <<segment>>, segmentLength)
             ELSE ChunkLoop(transcript, i + 1, chunks,
                            Append(currentChunk, segment),
                            currentLength + segmentLength)

chunkTranscript(transcript) == ChunkLoop(transcript, 1, <<>>, <<>>, 0)

\* one call of chunkTranscript
ChunkTranscript ==
    /\ chunkCall.pc = "idle"
    /\ chunkCall' = [chunkCall EXCEPT !.pc = "done",
                                      !.chunks = chunkTranscript(chunkCall.transcript)]
    /\ UNCHANGED <<ledgerVars, authVars>>

\* ------------------------------------------------------------- catchAsync
\* where the handler of call c was when its request timer fired
NotTimedOut == "no"

TimedOut(c) == timedOut[c] # NotTimedOut

\* faulty variant: the timer cancels the handler
RequestTimeoutCancels(c) ==
    /\ calls[c].pc \notin {"idle", "done"}
    /\ ~TimedOut(c)
    /\ timedOut' = [timedOut EXCEPT ![c] = calls[c].pc]
    /\ calls' = [calls EXCEPT ![c].pc = "done", ![c].code = 504]
    /\ UNCHANGED <<credits, plan, summaries, nextId, startCredits, authVars, chunkCall>>

\* the request timer fires while the handler of call c is still running: the
\* timeout error goes to next, the handler is not cancelled
RequestTimeout(c) ==
    /\ calls[c].pc \notin {"idle", "done"}
    /\ ~TimedOut(c)
    /\ timedOut' = [timedOut EXCEPT ![c] = calls[c].pc]
    /\ UNCHANGED <<credits, plan, summaries, nextId, calls, startCredits, authVars, chunkCall>>

\* ------------------------------------------------------------------ spec
\* a summary saved by an earlier call (saveSummary without an id)
SavedBefore(id) ==
    [id |-> id, userId |-> "u1", videoId |-> "v1", status |-> "COMPLETED", content |-> 1]

\* users hold a small balance of their FREE plan; the store holds at most
\* MaxInitRows summaries saved earlier
Init ==
    /\ credits \in [Users -> 1..MaxInitCredits]
    /\ startCredits = credits
    /\ plan = [u \in Users |-> "FREE"]
    /\ \E k \in 0..MaxInitRows :
          /\ summaries = {SavedBefore(i) : i \in 1..k}
          /\ nextId = k + 1
    /\ calls = [c \in Calls |-> IdleCall]
    /\ timedOut = [c \in Calls |-> NotTimedOut]
    /\ userRows = {}
    /\ refreshTokens = {}
    /\ nextUserId = 2
    /\ nextTokenId = MaxInitTokens + 1
    /\ auth = [c \in AuthCalls |-> IdleAuth]
    /\ chunkCall = NoChunkCall

\* inputs of the calls
Amounts == 0..2
Contents == {EmptyContent} \cup Payloads
Ids == 1..(NCalls + MaxInitRows)

Step(c) ==
    \/ \E u \in Users, v \in Videos : GenerateStart(c, u, v)
    \/ GenerateFindExisting(c)
    \/ GenerateCreate(c)
    \/ GenerateDebit(c)
    \/ GenerateAIReturn(c)
    \/ GenerateCompensate(c)
    \/ \E u \in Users, v \in Videos, content \in Contents, hasMetadata \in BOOLEAN :
          SaveCreate(c, u, v, content, hasMetadata)
    \/ \E u \in Users, id \in Ids, content \in Contents : SaveFind(c, u, id, content)
    \/ SaveUpdate(c)
    \/ \E u \in Users, id \in Ids : DeleteFind(c, u, id)
    \/ DeleteRow(c)
    \/ CleanupList(c)
    \/ CleanupFind(c)
    \/ CleanupDelete(c)
    \/ \E u \in Users, amount \in Amounts : AddCredits(c, u, amount)
    \/ \E u \in Users, amount \in Amounts : DeductRead(c, u, amount)
    \/ DeductUpdate(c)
    \/ \E u \in Users, newPlan \in Plans : UpgradeRead(c, u, newPlan)
    \/ UpgradeUpdate(c)
    \/ ResetFree(c)
    \/ ResetPremium(c)

Next == \E c \in Calls : Step(c)

Spec == Init /\ [][Next]_vars

\* the same calls, one at a time: a call starts only when no other is in flight
InFlight(c) == calls[c].pc \notin {"idle", "done"}

NextSeq == \E c \in Calls : (\A d \in Calls \ {c} : ~InFlight(d)) /\ Step(c)

SpecSeq == Init /\ [][NextSeq]_vars

\* the requests of the summary endpoints alone, in any interleaving
SummaryStep(c) ==
    \/ \E u \in Users, v \in Videos : GenerateStart(c, u, v)
    \/ GenerateFindExisting(c)
    \/ GenerateCreate(c)
    \/ GenerateDebit(c)
    \/ GenerateAIReturn(c)
    \/ GenerateCompensate(c)
    \/ \E u \in Users, v \in Videos, content \in Contents, hasMetadata \in BOOLEAN :
          SaveCreate(c, u, v, content, hasMetadata)
    \/ \E u \in Users, id \in Ids, content \in Contents : SaveFind(c, u, id, content)
    \/ SaveUpdate(c)
    \/ \E u \in Users, id \in Ids : DeleteFind(c, u, id)
    \/ DeleteRow(c)
    \/ \E u \in Users, id \in Ids : GetSummaryById(c, u, id)
    \/ \E u \in Users, id \in Ids, updates \in UpdateBodies :
          UpdateSummaryFind(c, u, id, updates)
    \/ UpdateSummaryWrite(c)

NextSummary == \E c \in Calls : SummaryStep(c)

SpecSummary == Init /\ [][NextSummary]_vars

\* generation requests alone, each under its request timer, in any interleaving;
\* the event loop runs every continuation that is ready
GenerateStep(c) ==
    \/ \E u \in Users, v \in Videos : GenerateStart(c, u, v)
    \/ GenerateFindExisting(c)
    \/ GenerateCreate(c)
    \/ GenerateDebit(c)
    \/ GenerateAIReturn(c)
    \/ GenerateCompensate(c)

NextGenerate ==
    \/ \E c \in Calls : GenerateStep(c)
    \/ \E c \in Calls : RequestTimeout(c)

SpecGenerate ==
    /\ Init
    /\ [][NextGenerate]_vars
    /\ \A c \in Calls : WF_vars(InFlight(c) /\ GenerateStep(c))

\* ------------------------------------------------------- authentication
\* the user table holds at most one user, registered locally or linked to a
\* federated subject
InitUserRows ==
    {{}} \cup {{[id |-> 1, email |-> e, supabaseId |-> s,
                  plan |-> "FREE", credits |-> freeMonthly]} :
                 e \in {"a@x", "b@x"}, s \in {NoSubject, "s1"}}

\* that user holds at most MaxInitTokens refresh tokens of earlier logins
InitTokens(rows) ==
    IF rows = {} THEN {{}}
    ELSE {{}} \cup {{[id |-> 1, userId |-> 1, revoked |-> r, expired |-> x]} :
                      r \in BOOLEAN, x \in BOOLEAN}

InitAuth ==
    /\ credits = [u \in Users |-> 1]
    /\ startCredits = credits
    /\ plan = [u \in Users |-> "FREE"]
    /\ summaries = {}
    /\ nextId = 1
    /\ calls = [c \in Calls |-> IdleCall]
    /\ timedOut = [c \in Calls |-> NotTimedOut]
    /\ userRows \in InitUserRows
    /\ refreshTokens \in InitTokens(userRows)
    /\ nextUserId = 2
    /\ nextTokenId = MaxInitTokens + 1
    /\ auth = [c \in AuthCalls |-> IdleAuth]
    /\ chunkCall = NoChunkCall

AuthStep(c) ==
    \/ \E email \in Emails, password \in Passwords : LoginFind(c, email, password)
    \/ \E thrown \in BOOLEAN : LoginSignIn(c, thrown)
    \/ LoginUpdate(c)
    \/ LoginStore(c)
    \/ \E t \in RefreshInputs : RefreshFind(c, t)
    \/ RefreshRotate(c)
    \/ \E b \in Bearers : AuthenticateStart(c, b)
    \/ \E failed \in BOOLEAN : AuthenticateGetUser(c, failed)
    \/ AuthenticateFind(c)
    \/ AuthenticateCreate(c)
    \/ \E email \in Emails : RegisterFind(c, email)
    \/ \E created \in BOOLEAN : RegisterSupabase(c, created)
    \/ RegisterCreate(c)
    \/ RegisterStore(c)

NextAuth ==
    \/ \E c \in AuthCalls : AuthStep(c)
    \/ \E t \in TokenIds : Logout(t)
    \/ CleanupExpiredTokens

SpecAuth == InitAuth /\ [][NextAuth]_vars

\* ------------------------------------------------------------- chunking
\* chunkTranscript alone, applied to every transcript of at most MaxSegments
\* segments
InitChunk ==
    /\ credits = [u \in Users |-> 1]
    /\ startCredits = credits
    /\ plan = [u \in Users |-> "FREE"]
    /\ summaries = {}
    /\ nextId = 1
    /\ calls = [c \in Calls |-> IdleCall]
    /\ timedOut = [c \in Calls |-> NotTimedOut]
    /\ userRows = {}
    /\ refreshTokens = {}
    /\ nextUserId = 2
    /\ nextTokenId = MaxInitTokens + 1
    /\ auth = [c \in AuthCalls |-> IdleAuth]
    /\ \E transcript \in Transcripts :
          chunkCall = [pc |-> "idle", transcript |-> transcript, chunks |-> <<>>]

NextChunk == ChunkTranscript

SpecChunk == InitChunk /\ [][NextChunk]_vars

\* ------------------------------------------------------------ properties
Cost == perSummary

IsGenerate(c) == calls[c].op = "generate"

\* the step is taken by call c and is its return
Returns(c) == calls[c].pc # "done" /\ calls'[c].pc = "done"

\* the attempt's row, in the state after the step
RowAfter(c) == (RowById(calls[c].summaryId))'

HasRowAfter(c) == (HasRow(calls[c].summaryId))'

\* C1 (charge-once): a generate call that runs alone, passes the credit check and
\* the idempotency check and whose AI call succeeds returns with the balance
\* exactly perSummary below the balance it started from and with exactly one
\* COMPLETED summary of that user for that video.
C1_ChargeOnce ==
    [][\A c \in Calls :
          (calls[c].pc = "g_ai" /\ Returns(c) /\ calls'[c].code = 200) =>
             /\ credits'[calls[c].userId] = calls[c].read - Cost
             /\ Cardinality((CompletedFor(calls[c].userId, calls[c].videoId))') = 1
             /\ calls'[c].data.id = calls[c].summaryId
             /\ calls'[c].data.status = "COMPLETED"]_vars

C1_Witness ==
    \E c \in Calls :
        /\ IsGenerate(c) /\ calls[c].pc = "done" /\ calls[c].code = 200
        /\ calls[c].summaryId # 0
        /\ calls[c].read >= Cost
        /\ credits[calls[c].userId] = calls[c].read - Cost
        /\ Cardinality(CompletedFor(calls[c].userId, calls[c].videoId)) = 1

\* a generate call of user u for video v takes its first step
StartsGenerate(c, u, v) ==
    /\ calls[c].pc = "idle" /\ calls'[c].op = "generate"
    /\ calls'[c].userId = u /\ calls'[c].videoId = v

\* replay of a completed video: the call gets past the credit check without a
\* write, and the idempotency check returns a COMPLETED summary of (u, v) with
\* no new row, no AI call and no change of the balance; with anyBalance the
\* credit check is claimed to pass whatever the balance
Replay(anyBalance) ==
    \A c \in Calls, u \in Users, v \in Videos :
        /\ ( /\ StartsGenerate(c, u, v)
             /\ CompletedFor(u, v) # {}
             /\ (anyBalance \/ credits[u] >= Cost) )
           => /\ calls'[c].pc = "g_find"
              /\ UNCHANGED <<credits, summaries, nextId>>
        /\ ( /\ IsGenerate(c) /\ calls[c].pc = "g_find" /\ calls'[c] # calls[c]
             /\ calls[c].userId = u /\ calls[c].videoId = v
             /\ CompletedFor(u, v) # {} )
           => /\ calls'[c].pc = "done" /\ calls'[c].code = 200
              /\ \E s \in CompletedFor(u, v) : calls'[c].data = formatSummary(s)
              /\ calls'[c].net = 0
              /\ UNCHANGED <<credits, summaries, nextId>>

\* C2 as stated (idempotent replay for every value of the balance): a generate
\* call of a user who owns a COMPLETED summary of the video returns that content,
\* creates no row, makes no AI call and leaves the balance unchanged.
C2_ReplayAnyBalance == [][Replay(TRUE)]_vars

\* C2 amended: the same, for a balance of at least perSummary at the credit
\* check (below it the call fails with 402 before the idempotency check).
C2_ReplayWithCredits == [][Replay(FALSE)]_vars

C2_Witness ==
    \E c \in Calls :
        /\ IsGenerate(c) /\ calls[c].pc = "done" /\ calls[c].code = 200
        /\ calls[c].summaryId = 0 /\ calls[c].net = 0
        /\ calls[c].data.status = "COMPLETED"
        /\ calls[c].data.videoId = calls[c].videoId

\* C3 (compensation): a generate call that runs alone, has debited the user and
\* whose AI call fails returns with the balance it started from and with its row
\* in status FAILED.
C3_Compensation ==
    [][\A c \in Calls :
          (calls[c].pc = "g_comp" /\ Returns(c)) =>
             /\ credits'[calls[c].userId] = calls[c].read
             /\ HasRowAfter(c)
             /\ RowAfter(c).status = "FAILED"
             /\ calls'[c].code >= 500]_vars

C3_Witness ==
    \E c \in Calls :
        /\ IsGenerate(c) /\ calls[c].pc = "done" /\ calls[c].code = 500
        /\ calls[c].summaryId # 0 /\ calls[c].net = 0
        /\ HasRow(calls[c].summaryId)
        /\ RowById(calls[c].summaryId).status = "FAILED"
        /\ credits[calls[c].userId] = calls[c].read

\* C4 (no silent credit loss): a generate call that has debited the user returns
\* either with its row COMPLETED and the charge kept, or with its row FAILED and
\* the charge refunded, whatever other calls are interleaved.
C4_NoSilentLoss ==
    [][\A c \in Calls :
          (IsGenerate(c) /\ Returns(c) /\ calls[c].net = Cost) =>
             /\ HasRowAfter(c)
             /\ \/ RowAfter(c).status = "COMPLETED" /\ calls'[c].net = Cost
                \/ RowAfter(c).status = "FAILED" /\ calls'[c].net = 0]_vars

\* what the generate calls of u have taken from the balance and not refunded
RECURSIVE SumNet(_, _)
SumNet(u, cs) ==
    IF cs = {} THEN 0
    ELSE LET c == CHOOSE x \in cs : TRUE
         IN  (IF IsGenerate(c) /\ calls[c].userId = u THEN calls[c].net ELSE 0)
             + SumNet(u, cs \ {c})

OnlyGenerate == \A c \in Calls : calls[c].op \in {"none", "generate"}

DistinctVideos ==
    \A c, d \in Calls :
        (c # d /\ IsGenerate(c) /\ IsGenerate(d) /\ calls[c].userId = calls[d].userId)
           => calls[c].videoId # calls[d].videoId

\* C5 (early debit bounds concurrent spending): while only generate calls for
\* distinct videos run, what they have debited from a user never exceeds the
\* balance b the user started with.
C5_DebitWithinBalance ==
    (OnlyGenerate /\ DistinctVideos) =>
        \A u \in Users : SumNet(u, Calls) <= startCredits[u]

\* C6 (non-negative balance): every user's credits value is >= 0 in every
\* reachable state.
C6_NonNegative == \A u \in Users : credits[u] >= 0

\* the step puts the row of attempt c in status FAILED
FlipsToFailed(c) ==
    /\ HasRow(calls[c].summaryId)
    /\ RowById(calls[c].summaryId).status # "FAILED"
    /\ HasRowAfter(c)
    /\ RowAfter(c).status = "FAILED"

\* the step is the compensation of attempt c and changes the owner's balance
Refunds(c) ==
    /\ calls[c].pc = "g_comp" /\ calls'[c].pc = "done"
    /\ credits'[calls[c].userId] # credits[calls[c].userId]

\* C7 (atomic compensation): in every step, the row of a generate attempt
\* becomes FAILED exactly if the refund of perSummary to its owner is
\* applied in the same step; a compensation that cannot write the row changes
\* neither the table nor the balance.
C7_AtomicCompensation ==
    [][\A c \in Calls :
          (IsGenerate(c) /\ calls[c].summaryId # 0) =>
             /\ FlipsToFailed(c) <=> Refunds(c)
             /\ Refunds(c) =>
                   /\ credits'[calls[c].userId] = credits[calls[c].userId] + Cost
                   /\ calls'[c].net = 0
             /\ (calls[c].pc = "g_comp" /\ Returns(c) /\ ~FlipsToFailed(c)) =>
                   UNCHANGED <<credits, summaries>>]_vars

C7_Witness ==
    \E c \in Calls :
        /\ IsGenerate(c) /\ calls[c].pc = "done" /\ calls[c].summaryId # 0
        /\ calls[c].net = 0
        /\ HasRow(calls[c].summaryId)
        /\ RowById(calls[c].summaryId).status = "FAILED"
        /\ \E d \in Calls \ {c} : InFlight(d)

\* C8 (insufficient credits): a generate call that finds the balance below
\* perSummary fails with 402, creates no row, never reaches the AI call
\* and leaves the balance unchanged.
C8_InsufficientCredits ==
    [][\A c \in Calls, u \in Users, v \in Videos :
          (StartsGenerate(c, u, v) /\ credits[u] < Cost) =>
             /\ calls'[c].pc = "done" /\ calls'[c].code = 402
             /\ calls'[c].summaryId = 0 /\ calls'[c].net = 0
             /\ UNCHANGED <<credits, summaries, nextId>>]_vars

C8_Witness ==
    \E c \in Calls :
        /\ IsGenerate(c) /\ calls[c].pc = "done" /\ calls[c].code = 402
        /\ calls[c].read < Cost
        /\ credits[calls[c].userId] = calls[c].read

OnlyGenerateAndSave ==
    \A c \in Calls : calls[c].op \in {"none", "generate", "save", "saveId"}

\* C9 (canonical completed record): after any sequence of generate and
\* saveSummary calls that do not overlap, there is at most one COMPLETED summary
\* for each (user, videoId) pair.
C9_OneCompleted ==
    OnlyGenerateAndSave =>
        \A u \in Users, v \in Videos : Cardinality(CompletedFor(u, v)) <= 1

\* two generate calls of one user for one video have both returned their own
\* completed row
BothCompleted(c, d) ==
    /\ c # d /\ IsGenerate(c) /\ IsGenerate(d)
    /\ calls[c].userId = calls[d].userId /\ calls[c].videoId = calls[d].videoId
    /\ calls[c].pc = "done" /\ calls[d].pc = "done"
    /\ calls[c].code = 200 /\ calls[d].code = 200
    /\ calls[c].summaryId # 0 /\ calls[d].summaryId # 0

\* C10 (same-video race): whenever two generate calls of one user for one video
\* both passed the idempotency check and both completed, each returned its own
\* COMPLETED summary and each kept its charge: the user paid twice for one video.
\* The witness is the interleaving the claim says exists.
C10_BothCharged ==
    \A c, d \in Calls :
        BothCompleted(c, d) =>
            /\ calls[c].net = Cost /\ calls[d].net = Cost
            /\ calls[c].data.id = calls[c].summaryId
            /\ calls[d].data.id = calls[d].summaryId
            /\ calls[c].data.id # calls[d].data.id
            /\ calls[c].data.status = "COMPLETED" /\ calls[d].data.status = "COMPLETED"

C10_Witness ==
    \E c, d \in Calls :
        /\ BothCompleted(c, d)
        /\ startCredits[calls[c].userId] >= 2 * Cost
        /\ credits[calls[c].userId] = startCredits[calls[c].userId] - 2 * Cost
        /\ Cardinality(CompletedFor(calls[c].userId, calls[c].videoId)) = 2
\* ---------------------------------------------------------- refresh tokens
IsRefresh(c) == auth[c].op = "refresh"

\* C11: a refresh token is single-use: a refreshToken call that starts after a
\* call with the same token has succeeded and returned fails with 401 at its
\* lookup, and creates no RefreshToken row.
C11_SingleUse ==
    \A c \in AuthCalls :
        IsRefresh(c) /\ auth[c].spent =>
            /\ auth[c].pc = "done"
            /\ auth[c].code = 401
            /\ auth[c].issued = 0

C11_Witness ==
    \E c \in AuthCalls :
        /\ IsRefresh(c) /\ auth[c].spent /\ auth[c].pc = "done"
        /\ Redeemed(auth[c].token)

\* C12: of the refreshToken calls that present the same token, at most one
\* succeeds, whatever the interleaving.
C12_AtMostOneRedemption ==
    \A c, d \in AuthCalls :
        /\ c # d
        /\ IsRefresh(c) /\ IsRefresh(d)
        /\ auth[c].token = auth[d].token
        /\ auth[c].pc = "done" /\ auth[d].pc = "done"
        => ~(auth[c].code = 200 /\ auth[d].code = 200)

\* --------------------------------------------------------------- retention
IsCleanup(c) == calls'[c].op = "cleanup"

Min(a, b) == IF a < b THEN a ELSE b

\* what one step of a cleanup run does to the rows of user u
RetentionStep(c, u) ==
    /\ RowsOf(u)' \subseteq RowsOf(u)
    /\ RowsOf(u)' # RowsOf(u) =>
          /\ calls[c].counts[u] > MAX_SUMMARY_HISTORY
          /\ Cardinality(RowsOf(u)') = MAX_SUMMARY_HISTORY
          /\ \A kept \in RowsOf(u)', gone \in RowsOf(u) \ RowsOf(u)' :
                 kept.id > gone.id

\* C13: a cleanupOldSummaries run with nothing interleaved visits exactly the
\* users over the cap, deletes only their oldest rows, and when it returns every
\* user holds min(n, MAX_SUMMARY_HISTORY) rows, n being the count at the
\* start: users over the cap keep the latest MAX_SUMMARY_HISTORY, the others
\* keep all.
C13_Retention ==
    [][\A c \in Calls : IsCleanup(c) /\ calls'[c] # calls[c] =>
          /\ calls[c].pc = "idle" =>
                /\ calls'[c].pending =
                      {u \in Users : Cardinality(RowsOf(u)) > MAX_SUMMARY_HISTORY}
                /\ calls'[c].counts = [u \in Users |-> Cardinality(RowsOf(u))]
                /\ summaries' = summaries
          /\ calls[c].pc # "idle" => \A u \in Users : RetentionStep(c, u)
          /\ calls'[c].pc = "done" =>
                \A u \in Users :
                    Cardinality(RowsOf(u)') =
                        Min(calls'[c].counts[u], MAX_SUMMARY_HISTORY)]_vars

C13_Witness ==
    \E c \in Calls, u \in Users :
        /\ calls[c].op = "cleanup" /\ calls[c].pc = "done"
        /\ calls[c].counts[u] > MAX_SUMMARY_HISTORY
        /\ Cardinality(RowsOf(u)) = MAX_SUMMARY_HISTORY

\* ---------------------------------------------------------- request timeout
\* the generation of call c has run to its end: its row is COMPLETED and the
\* charge is kept, or its row is FAILED and the charge is refunded
RanToEnd(c) ==
    /\ calls[c].pc = "done"
    /\ HasRow(calls[c].summaryId)
    /\ LET row == RowById(calls[c].summaryId)
       IN  \/ row.status = "COMPLETED" /\ calls[c].net = Cost
           \/ row.status = "FAILED" /\ calls[c].net = 0

Granted(c) ==
    IF calls[c].op = "upgradePlan" /\ calls[c].pc = "done" /\ calls[c].code = 200
    THEN creditsToAdd(calls[c].readPlan, calls[c].newPlan)
    ELSE 0

RECURSIVE SumGranted(_, _)
SumGranted(u, cs) ==
    IF cs = {} THEN 0
    ELSE LET c == CHOOSE x \in cs : TRUE
         IN  (IF calls[c].userId = u THEN Granted(c) ELSE 0) + SumGranted(u, cs \ {c})

\* a finished upgradePlan call has moved u to PREMIUM
EverUpgraded(u) ==
    \E c \in Calls : /\ calls[c].op = "upgradePlan" /\ calls[c].userId = u
                     /\ calls[c].pc = "done" /\ calls[c].code = 200
                     /\ calls[c].newPlan = "PREMIUM"

\* C15: the credits granted to a user by plan changes total premiumMonthly -
\* freeMonthly if the user was ever switched from FREE to PREMIUM, and 0
\* otherwise, under every interleaving of upgradePlan calls.
C15_OneTimeTopUp ==
    \A u \in Users :
        SumGranted(u, Calls) =
            IF EverUpgraded(u) THEN premiumMonthly - freeMonthly ELSE 0

\* ------------------------------------------------------------ deductCredits
IsDeduct(c) == calls'[c].op = "deductCredits"

\* C16: a deductCredits(user, amount) call with nothing interleaved: amount <= 0
\* fails with 400; a balance below the amount fails with 402; both leave every
\* balance unchanged.  Otherwise the balance of the user decreases by exactly
\* the amount, no other balance changes, and the returned newBalance is the
\* stored balance.
C16_DeductContract ==
    [][\A c \in Calls : IsDeduct(c) /\ calls'[c] # calls[c] =>
          LET u == calls'[c].userId
              amount == calls'[c].arg
          IN  /\ calls[c].pc = "idle" =>
                    /\ credits' = credits
                    /\ amount > 0 => calls'[c].read = credits[u]
                    /\ amount <= 0 =>
                          calls'[c].pc = "done" /\ calls'[c].code = 400
                    /\ amount > 0 /\ credits[u] < amount =>
                          calls'[c].pc = "done" /\ calls'[c].code = 402
                    /\ amount > 0 /\ credits[u] >= amount => calls'[c].pc # "done"
              /\ calls[c].pc # "idle" =>
                    /\ calls'[c].pc = "done" /\ calls'[c].code = 200
                    /\ amount > 0 /\ calls[c].read >= amount
                    /\ credits[u] = calls[c].read
                    /\ credits' = [credits EXCEPT ![u] = calls[c].read - amount]
                    /\ calls'[c].newBalance = credits'[u]]_vars

C16_Witness ==
    \E c, d \in Calls :
        /\ calls[c].op = "deductCredits" /\ calls[c].pc = "done"
        /\ calls[c].code = 200 /\ calls[c].arg = 2
        /\ credits[calls[c].userId] = startCredits[calls[c].userId] - 2
        /\ calls[d].op = "deductCredits" /\ calls[d].pc = "done"
        /\ calls[d].code = 402 /\ calls[d].userId = calls[c].userId

\* ------------------------------------------------------------- authenticate
IsAuthenticate(c) == auth'[c].op = "authenticate"

\* the bearer token verifies as a token of this server
VerifiesLocally(b) == LocalUserId(b) # 0

\* C17: authenticate lets a request through only with a user row of the store.
\* A token that verifies locally but whose user row is missing goes the way of
\* a token that fails local verification: to the federated check, and to 401
\* when that check fails.
C17_NoDanglingUser ==
    [][\A c \in AuthCalls : IsAuthenticate(c) /\ auth'[c] # auth[c] =>
          LET b == auth'[c].bearer
          IN  /\ auth'[c].pc = "done" /\ auth'[c].code = 200 =>
                    \E r \in userRows' : r.id = auth'[c].userId
              /\ auth[c].pc = "idle" /\ b # NoBearer
                 /\ (~VerifiesLocally(b) \/ UserById(LocalUserId(b)) = {}) =>
                    auth'[c].pc = "a_getUser"
              /\ auth[c].pc = "a_getUser" /\ FederatedSubject(b) = NoSubject =>
                    auth'[c].pc = "done" /\ auth'[c].code = 401]_vars

C17_Witness ==
    \E c \in AuthCalls :
        /\ auth[c].op = "authenticate" /\ auth[c].pc = "done"
        /\ VerifiesLocally(auth[c].bearer)
        /\ UserById(LocalUserId(auth[c].bearer)) = {}
        /\ auth[c].code = 401

\* ------------------------------------------------------------ provisioning
\* C18: an authenticate call whose token failed local verification and passed
\* the federated check with a subject that carries an e-mail ends authenticated
\* as a local user linked to that subject, and then exactly one local user is
\* linked to the subject, for every prior user table and every interleaving.
C18_ProvisionOnFirstUse ==
    \A c \in AuthCalls :
        /\ auth[c].op = "authenticate" /\ auth[c].pc = "done"
        /\ auth[c].subject # NoSubject
        /\ FederatedEmail(auth[c].subject) # NoEmail
        => /\ auth[c].code = 200
           /\ \E r \in UserBySupabaseId(auth[c].subject) : r.id = auth[c].userId
           /\ Cardinality(UserBySupabaseId(auth[c].subject)) = 1

\* -------------------------------------------------------------- save path
\* C19: saveSummary without an id and with videoId, videoTitle and channelName
\* returns at its one statement, which adds exactly one Summary row, COMPLETED
\* and owned by the caller; the call never reaches the AI client, and no balance
\* and no plan changes.
C19_SaveFrame ==
    [][\A c \in Calls, u \in Users, v \in Videos, content \in Contents :
          SaveCreate(c, u, v, content, TRUE) =>
              /\ calls'[c].pc = "done" /\ calls'[c].code = 200
              /\ \E row \in summaries' :
                    /\ ~HasRow(row.id)
                    /\ summaries' = summaries \cup {row}
                    /\ row.status = "COMPLETED"
                    /\ row.userId = u /\ row.videoId = v
                    /\ row.content = content
                    /\ calls'[c].summaryId = row.id
              /\ credits' = credits
              /\ plan' = plan
              /\ \A d \in Calls \ {c} : calls'[d] = calls[d]]_vars

C19_Witness ==
    \E c \in Calls :
        /\ calls[c].op = "save" /\ calls[c].pc = "done" /\ calls[c].code = 200
        /\ calls[c].summaryId # 0 /\ HasRow(calls[c].summaryId)
        /\ RowById(calls[c].summaryId).status = "COMPLETED"
        /\ RowById(calls[c].summaryId).userId = calls[c].userId
        /\ credits = startCredits

\* ------------------------------------------------------------------- login
IsLogin(c) == auth'[c].op = "login"

\* the outcome of a finished login call
LoginOutcome(c) == <<auth[c].code, auth[c].issued # 0>>

\* C20: login is decided by the lookup of the lower-cased e-mail alone: without
\* a row it fails with 401, with a row it is never rejected and returns 200 with
\* a stored refresh token, whatever the password and whatever the identity
\* provider says; two login calls that differ only in the password have the
\* same outcome.
C20_PasswordIgnored ==
    /\ [][\A c \in AuthCalls : IsLogin(c) /\ auth'[c] # auth[c] =>
            /\ auth[c].pc = "idle" =>
                  /\ auth'[c].found = (UserByEmail(toLowerCase(auth'[c].email)) # {})
                  /\ ~auth'[c].found => auth'[c].pc = "done" /\ auth'[c].code = 401
                  /\ auth'[c].found => auth'[c].pc # "done"
            /\ auth[c].pc # "idle" /\ auth'[c].pc = "done" =>
                  /\ auth'[c].code = 200
                  /\ \E t \in refreshTokens' \ refreshTokens :
                        t.id = auth'[c].issued /\ t.userId = auth'[c].userId]_vars
    /\ [](\A c, d \in AuthCalls :
            /\ auth[c].op = "login" /\ auth[d].op = "login"
            /\ auth[c].pc = "done" /\ auth[d].pc = "done"
            /\ auth[c].email = auth[d].email
            /\ auth[c].found = auth[d].found
            => LoginOutcome(c) = LoginOutcome(d))

C20_Witness ==
    \E c, d \in AuthCalls :
        /\ auth[c].op = "login" /\ auth[d].op = "login"
        /\ auth[c].pc = "done" /\ auth[d].pc = "done"
        /\ auth[c].email = auth[d].email
        /\ auth[c].password = "right" /\ auth[d].password = "wrong"
        /\ auth[c].code = 200 /\ auth[d].code = 200
        /\ \E r \in UserById(auth[d].userId) : r.supabaseId # NoSubject

\* ----------------------------------------------------------- status machine
\* the call that takes the step
Acts(c) == calls'[c] # calls[c]

\* C21: a row created by generate starts in PROCESSING; a status changes only
\* from PROCESSING to COMPLETED or to FAILED; COMPLETED and FAILED are never
\* left; no row is ever in PENDING.
C21_StatusMachine ==
    [][\A s \in summaries' :
          /\ s.status # "PENDING"
          /\ HasRow(s.id) =>
                \/ RowById(s.id).status = s.status
                \/ /\ RowById(s.id).status = "PROCESSING"
                   /\ s.status \in {"COMPLETED", "FAILED"}
          /\ (~HasRow(s.id) /\ \E c \in Calls : calls[c].pc = "g_create" /\ Acts(c)) =>
                s.status = "PROCESSING"]_vars

\* ------------------------------------------------------ ownership isolation
\* C24: a get, update, delete or save-with-id that names a Summary of another
\* user ends with 404 and changes no row; every row a call modifies, deletes or
\* returns is owned by the user who issued the call; the owner of a row never
\* changes.
C24_OwnershipIsolation ==
    [][\A c \in Calls : Acts(c) =>
          LET u == calls'[c].userId
              id == calls'[c].summaryId
          IN  /\ (/\ calls[c].pc = "idle"
                  /\ calls'[c].op \in {"get", "update", "delete", "saveId"}
                  /\ HasRow(id) /\ RowById(id).userId # u) =>
                     /\ calls'[c].pc = "done" /\ calls'[c].code = 404
                     /\ summaries' = summaries
              /\ \A s \in summaries \ summaries' : s.userId = u
              /\ (calls'[c].pc = "done" /\ calls'[c].data.saved) =>
                     \E s \in summaries \cup summaries' :
                         s.id = calls'[c].data.id /\ s.userId = u
              /\ \A s \in summaries, t \in summaries' :
                     s.id = t.id => s.userId = t.userId]_vars

\* ------------------------------------------------------------ update frame
\* C27: an updateSummary of the caller's own row changes at most the content
\* fields of that row: its status, owner and videoId stay as they are, whatever
\* the request body carries, and no other row changes.
C27_UpdateFrame ==
    [][\A c \in Calls :
          (/\ calls[c].pc = "u_update" /\ Acts(c)
           /\ HasRow(calls[c].summaryId)
           /\ RowById(calls[c].summaryId).userId = calls[c].userId) =>
              \E new \in summaries' :
                  LET old == RowById(calls[c].summaryId)
                  IN  /\ new.id = old.id
                      /\ new.status = old.status
                      /\ new.userId = old.userId
                      /\ new.videoId = old.videoId
                      /\ summaries' \ {new} = summaries \ {old}]_vars

\* ------------------------------------------------------------ step ordering
AIInFlight(c) == IsGenerate(c) /\ calls[c].pc = "g_ai"

WellFormed(response) ==
    /\ response.outcome = "ok"
    /\ response.keyPoints = "strings"
    /\ response.fullSummary = "text"
    /\ response.tags \in {"empty", "strings"}

\* C23: generate completes its row only with the content of one well-formed AI
\* response, which is then not empty; every response that is empty,
\* unparseable or not well-formed, and every failed request, takes the
\* failure path and leaves every row as it is.
C23_OnlyValidPersisted ==
    [][\A c \in Calls, response \in AIResponses :
          GenerateAIResponse(c, response) =>
              /\ (WellFormed(response) /\ HasRow(calls[c].summaryId)) =>
                    /\ RowAfter(c).status = "COMPLETED"
                    /\ RowAfter(c).content = response.payload
                    /\ RowAfter(c).content # EmptyContent
                    /\ calls'[c].pc = "done" /\ calls'[c].code = 200
              /\ ~WellFormed(response) =>
                    /\ summaries' = summaries
                    /\ calls'[c].pc = "g_comp"
              /\ \A s \in summaries' :
                    (s.status = "COMPLETED" /\ s \notin summaries) =>
                        /\ WellFormed(response)
                        /\ s.id = calls[c].summaryId]_vars

C23_Witness ==
    \E c, d \in Calls :
        /\ IsGenerate(c) /\ calls[c].pc = "done" /\ calls[c].code = 200
        /\ HasRow(calls[c].summaryId)
        /\ RowById(calls[c].summaryId).status = "COMPLETED"
        /\ RowById(calls[c].summaryId).content \in Payloads
        /\ IsGenerate(d) /\ calls[d].pc = "done" /\ calls[d].code = 500
        /\ HasRow(calls[d].summaryId)
        /\ RowById(calls[d].summaryId).status = "FAILED"
        /\ RowById(calls[d].summaryId).content = EmptyContent

\* ------------------------------------------------------------------ C28
Allotment(p) == IF p = "PREMIUM" THEN premiumMonthly ELSE freeMonthly

OnlyGenerateAndReset ==
    \A c \in Calls : calls[c].op \in {"none", "generate", "resetMonthlyCredits"}

\* C28 (balance never exceeds the allotment through refunds): while a user's
\* balance is touched only by generate calls and resetMonthlyCredits runs, the
\* balance is at most the monthly allotment of the user's plan.
C28_WithinAllotment ==
    OnlyGenerateAndReset =>
        \A u \in Users : credits[u] <= Allotment(plan[u])

\* ------------------------------------------------------------------ C29
\* what the request of a generate call has produced so far: the handler's
\* res.json after the service returned, and the errors passed to next (the
\* timeout error by the timer, the service's error by the catch branch)
Responses(c) ==
    IF calls[c].pc = "done" /\ calls[c].code = 200 THEN 1 ELSE 0

NextCalls(c) ==
    (IF TimedOut(c) THEN 1 ELSE 0)
    + (IF calls[c].pc = "done" /\ calls[c].code # 200 THEN 1 ELSE 0)

\* C29 (one outcome per request): a request handled through catchAsync never
\* has more than one outcome, and a finished one has exactly one: either the
\* handler's response or one error passed to next, also when the request timer
\* fired before the handler completed.
C29_OneOutcome ==
    \A c \in Calls :
        IsGenerate(c) =>
            /\ Responses(c) + NextCalls(c) <= 1
            /\ calls[c].pc = "done" => Responses(c) + NextCalls(c) = 1

\* ------------------------------------------------------------------ C30
\* C30 (uniform starting balance): every user row, at the moment it is
\* created by register or by the first-use provisioning of authenticate, has
\* plan FREE and a balance equal to the free monthly allotment.
C30_StartingBalance ==
    [][\A r \in userRows' :
          r \notin userRows => r.plan = "FREE" /\ r.credits = freeMonthly]_vars

\* ------------------------------------------------------------- C25, C26
RECURSIVE TotalLength(_)
\* the total text length of a sequence of segments
TotalLength(segments) ==
    IF segments = <<>> THEN 0
    ELSE Head(segments).length + TotalLength(Tail(segments))

RECURSIVE Flatten(_)
\* the chunks concatenated in order
Flatten(chunks) ==
    IF chunks = <<>> THEN <<>> ELSE Head(chunks) \o Flatten(Tail(chunks))

\* C25 (chunk size bound): every chunk returned by chunkTranscript has a total
\* segment-text length below floor(MAX_TRANSCRIPT_LENGTH / 3), and every
\* segment of a chunk is a whole segment of the transcript.
C25_ChunkSizeBound ==
    chunkCall.pc = "done" =>
        \A k \in 1..Len(chunkCall.chunks) :
            /\ TotalLength(chunkCall.chunks[k]) < maxChunkLength
            /\ \A j \in 1..Len(chunkCall.chunks[k]) :
                  \E i \in 1..Len(chunkCall.transcript) :
                      chunkCall.chunks[k][j] = chunkCall.transcript[i]

\* C26 (order-preserving partition): for a non-empty transcript chunkTranscript
\* returns only non-empty chunks, and the chunks concatenated in order are
\* exactly the input segment sequence.
C26_OrderPreservingPartition ==
    (chunkCall.pc = "done" /\ chunkCall.transcript # <<>>) =>
        /\ \A k \in 1..Len(chunkCall.chunks) : chunkCall.chunks[k] # <<>>
        /\ Flatten(chunkCall.chunks) = chunkCall.transcript

C26_Witness ==
    /\ chunkCall.pc = "done"
    /\ Len(chunkCall.transcript) = MaxSegments
    /\ Len(chunkCall.chunks) >= 2
    /\ \E k \in 1..Len(chunkCall.chunks) : Len(chunkCall.chunks[k]) >= 2


====
